---- MODULE Spec2Model ----
(***************************************************************************)
(* State-machine model of the BOG production-test data service             *)
(* (bog-test-server/main.py, bog-test-server/schemas.py).                   *)
(*                                                                         *)
(* The production_tests table is a sequence of rows in rowid (insertion)   *)
(* order.  Text values are sequences of characters, so that str.strip()    *)
(* is computed and not assumed.  A created_at text is the pair             *)
(* <<day, second of day>> that strftime produces from the clock; the SQL   *)
(* text order of two such values is the lexicographic order of the pairs,  *)
(* and date(created_at) is the first component.                            *)
(***************************************************************************)
EXTENDS Integers, Sequences, FiniteSets, Bags, TLC

VARIABLES records, clock, pending, _viewers, _viewers_lock, heartbeats, summary, call, resp

vars == <<records, clock, pending, _viewers, _viewers_lock, heartbeats, summary, call, resp>>

-----------------------------------------------------------------------------
(* Bounds of the model.                                                    *)

\* POST /api/production-test calls that get past validation in one behaviour.
MaxRecords == 3
\* Last value of the service clock, in seconds.
MaxClock == 2
\* Length of a calendar day in clock seconds (scaled down).
SecondsPerDay == 2
\* Ingestion calls that may be between their clock read and their insert.
MaxInFlight == 2
\* Largest limit a get_records caller passes.
MaxLimit == 2
\* Records stored while the presence tracker is followed.
MaxPresenceRecords == 1
\* api_viewers calls that may be in progress at once.
MaxHeartbeats == 2
\* Idle periods of VIEWER_TIMEOUT_SEC seconds the presence clock passes.
MaxIdle == 1

-----------------------------------------------------------------------------
(* Values.                                                                 *)

\* Python None for an Optional[str] query parameter: no text is this value.
None == <<"None">>

\* Python None for a date_from / date_to parameter (days are counted from 0).
NoDate == -1

\* Python None for durationSeconds (clients send durations from 0 up).
NoNumber == -1

\* No response is being looked at.
NoResp == [status |-> 0]

\* The space character; the only whitespace the inputs contain.
SP == " "

\* The characters serial numbers are made of, in code-point order.
CharRank == [c \in {" ", "A", "B"} |-> CASE c = " " -> 32 [] c = "A" -> 65 [] c = "B" -> 66]

RECURSIVE lstrip(_)
lstrip(s) ==
  IF s # <<>> /\ Head(s) = SP THEN lstrip(Tail(s)) ELSE s

RECURSIVE rstrip(_)
rstrip(s) ==
  IF s # <<>> /\ s[Len(s)] = SP THEN rstrip(SubSeq(s, 1, Len(s) - 1)) ELSE s

\* str.strip(): leading and trailing whitespace removed.
strip(s) == rstrip(lstrip(s))

\* Python truthiness of an Optional[str] query parameter ("if sn:").
Truthy(x) == x # None /\ x # <<>>

\* Text order of two serial numbers (SQLite BINARY collation).
RECURSIVE TextLess(_, _)
TextLess(a, b) ==
  IF b = <<>> THEN FALSE
  ELSE IF a = <<>> THEN TRUE
  ELSE IF Head(a) # Head(b) THEN CharRank[Head(a)] < CharRank[Head(b)]
  ELSE TextLess(Tail(a), Tail(b))

\* _now_iso(): the clock formatted "%Y-%m-%dT%H:%M:%SZ", second precision.
_now_iso(now) == <<now \div SecondsPerDay, now % SecondsPerDay>>

\* SQLite date(created_at): the calendar-day part of the text.
date(ts) == ts[1]

\* Text order of two created_at values.
TsLess(a, b) == a[1] < b[1] \/ (a[1] = b[1] /\ a[2] < b[2])

-----------------------------------------------------------------------------
(* JSON.  A JSON text is the sequence of its tokens: the punctuation        *)
(* { } [ ] : , the literal null, and string literals (every other token).   *)
(* A decoded value carries its kind: null, str, list, or dict (the members  *)
(* <<key, value>> in insertion order).                                      *)

\* Python None where a dict, a list or a decoded JSON value is expected.
null == [k |-> "null"]

JStr(s) == [k |-> "str", s |-> s]

JList(items) == [k |-> "list", items |-> items]

JDict(members) == [k |-> "dict", members |-> members]

\* What json.loads raises on a text that is not JSON.
JSONDecodeError == [k |-> "JSONDecodeError"]

\* The tokens that are not string literals.
Punctuation == { "{", "}", "[", "]", ":", ",", "null" }

RECURSIVE json_dumps(_)
RECURSIVE dumps_items(_)
RECURSIVE dumps_members(_)

\* The elements of a list, separated by commas.
dumps_items(items) ==
  IF items = <<>> THEN <<>>
  ELSE json_dumps(Head(items)) \o (IF Len(items) > 1 THEN <<",">> ELSE <<>>)
         \o dumps_items(Tail(items))

\* The members of a dict in insertion order, separated by commas.
dumps_members(members) ==
  IF members = <<>> THEN <<>>
  ELSE <<Head(members)[1], ":">> \o json_dumps(Head(members)[2])
         \o (IF Len(members) > 1 THEN <<",">> ELSE <<>>)
         \o dumps_members(Tail(members))

\* json.dumps(v, ensure_ascii=False).
json_dumps(v) ==
  CASE v.k = "null" -> <<"null">>
    [] v.k = "str"  -> <<v.s>>
    [] v.k = "list" -> <<"[">> \o dumps_items(v.items) \o <<"]">>
    [] v.k = "dict" -> <<"{">> \o dumps_members(v.members) \o <<"}">>

\* The decoder found no value.
Failed == [ok |-> FALSE, v |-> null, next |-> 0]

\* d[key] = v on the members of a dict: a repeated key keeps its place and
\* takes the last value.
Put(members, key, v) ==
  IF \E m \in DOMAIN members : members[m][1] = key
  THEN [m \in DOMAIN members |-> IF members[m][1] = key THEN <<key, v>> ELSE members[m]]
  ELSE Append(members, <<key, v>>)

RECURSIVE ParseValue(_, _)
RECURSIVE ParseItems(_, _, _)
RECURSIVE ParseMembers(_, _, _)

\* The elements of a list from token i on, up to the closing bracket.
ParseItems(t, i, acc) ==
  LET r == ParseValue(t, i)
  IN IF ~r.ok \/ r.next > Len(t) THEN Failed
     ELSE IF t[r.next] = "]"
          THEN [ok |-> TRUE, v |-> JList(Append(acc, r.v)), next |-> r.next + 1]
     ELSE IF t[r.next] = "," THEN ParseItems(t, r.next + 1, Append(acc, r.v))
     ELSE Failed

\* The members of a dict from token i on, up to the closing brace.
ParseMembers(t, i, acc) ==
  IF i + 1 > Len(t) \/ t[i] \in Punctuation \/ t[i + 1] # ":" THEN Failed
  ELSE LET r == ParseValue(t, i + 2)
       IN IF ~r.ok \/ r.next > Len(t) THEN Failed
          ELSE IF t[r.next] = "}"
               THEN [ok |-> TRUE, v |-> JDict(Put(acc, t[i], r.v)), next |-> r.next + 1]
          ELSE IF t[r.next] = "," THEN ParseMembers(t, r.next + 1, Put(acc, t[i], r.v))
          ELSE Failed

\* The value that starts at token i, and the position after it.
ParseValue(t, i) ==
  IF i > Len(t) THEN Failed
  ELSE IF t[i] = "null" THEN [ok |-> TRUE, v |-> null, next |-> i + 1]
  ELSE IF t[i] = "["
       THEN IF i + 1 <= Len(t) /\ t[i + 1] = "]"
            THEN [ok |-> TRUE, v |-> JList(<<>>), next |-> i + 2]
            ELSE ParseItems(t, i + 1, <<>>)
  ELSE IF t[i] = "{"
       THEN IF i + 1 <= Len(t) /\ t[i + 1] = "}"
            THEN [ok |-> TRUE, v |-> JDict(<<>>), next |-> i + 2]
            ELSE ParseMembers(t, i + 1, <<>>)
  ELSE IF t[i] \notin Punctuation THEN [ok |-> TRUE, v |-> JStr(t[i]), next |-> i + 1]
  ELSE Failed

\* json.loads(t): the value the whole text denotes, or JSONDecodeError.
json_loads(t) ==
  LET r == ParseValue(t, 1)
  IN IF r.ok /\ r.next = Len(t) + 1 THEN r.v ELSE JSONDecodeError

-----------------------------------------------------------------------------
(* Ingestion: POST /api/production-test.                                   *)

\* deviceSerialNumber values clients send.
PayloadSerials == { <<>>, <<SP>>, <<"A", SP>>, <<"B">> }

\* The fields of ProductionTestPayload a client may leave out, at their
\* defaults.
Omitted ==
  [ startTime |-> None, endTime |-> None, durationSeconds |-> NoNumber,
    deviceName |-> None, deviceFirmwareVersion |-> None,
    deviceBootloaderVersion |-> None, deviceHardwareRevision |-> None,
    needRetest |-> FALSE, stepsSummary |-> <<>>, stepResults |-> null,
    testDetails |-> null ]

\* The same fields, each given with an empty value.
Emptied ==
  [ startTime |-> <<>>, endTime |-> <<>>, durationSeconds |-> 0,
    deviceName |-> <<>>, deviceFirmwareVersion |-> <<>>,
    deviceBootloaderVersion |-> <<>>, deviceHardwareRevision |-> <<>>,
    needRetest |-> FALSE, stepsSummary |-> <<>>, stepResults |-> JDict(<<>>),
    testDetails |-> JDict(<<>>) ]

\* The same fields, each given with a value of its own; the steps are not in
\* alphabetical order and the details are nested.
Filled ==
  [ startTime |-> <<"T", "1">>, endTime |-> <<"T", "2">>, durationSeconds |-> 15,
    deviceName |-> <<"N">>, deviceFirmwareVersion |-> <<"F">>,
    deviceBootloaderVersion |-> <<"L">>, deviceHardwareRevision |-> <<"H">>,
    needRetest |-> TRUE,
    stepsSummary |-> << [stepId |-> "rtc", status |-> "failed"],
                        [stepId |-> "gas", status |-> "passed"] >>,
    stepResults |-> JDict(<< <<"rtc", JStr("failed")>>, <<"gas", JStr("passed")>> >>),
    testDetails |-> JDict(<< <<"valves", JList(<<JStr("open"), JStr("closed")>>)>>,
                             <<"rtc", JDict(<< <<"delta", JStr("1")>> >>)>>,
                             <<"note", null>> >>) ]

\* A request body.
Body(sn, passed, opt) ==
  [ startTime |-> opt.startTime,
    endTime |-> opt.endTime,
    durationSeconds |-> opt.durationSeconds,
    deviceSerialNumber |-> sn,
    deviceName |-> opt.deviceName,
    deviceFirmwareVersion |-> opt.deviceFirmwareVersion,
    deviceBootloaderVersion |-> opt.deviceBootloaderVersion,
    deviceHardwareRevision |-> opt.deviceHardwareRevision,
    overallPassed |-> passed,
    needRetest |-> opt.needRetest,
    stepsSummary |-> opt.stepsSummary,
    stepResults |-> opt.stepResults,
    testDetails |-> opt.testDetails ]

\* Request bodies that give the two required fields only.
Payloads == { Body(sn, passed, Omitted) : sn \in PayloadSerials, passed \in BOOLEAN }

\* Request bodies with the optional fields left out, empty, or filled.
DetailedPayloads ==
  { Body(sn, passed, opt) :
      sn \in { <<>>, <<"A", SP>> }, passed \in BOOLEAN, opt \in {Omitted, Emptied, Filled} }

\* ProductionTestPayload validation: deviceSerialNumber has min_length 1,
\* checked on the value as sent.
ProductionTestPayload(p) == Len(p.deviceSerialNumber) >= 1

\* Identifiers drawn so far (stored or held by a call in flight).
IdsDrawn == { records[i].id : i \in DOMAIN records } \cup { q.test_id : q \in BagToSet(pending) }

\* uuid.uuid4(): an arbitrary identifier.  Identifiers are interchangeable, so a
\* draw is either one drawn before or the next unused one.
uuid4 == 1 .. (Cardinality(IdsDrawn) + 1)

\* Calls that got past validation so far.
Begun == Len(records) + BagCardinality(pending)

NoCall == [op |-> "none"]

\* No get_summary call is between its queries.
NoSummary == [pc |-> "none"]

\* PRIMARY KEY on id: an insert with a stored id raises IntegrityError.
MutPrimaryKeyViolated(rows, id) == FALSE

PrimaryKeyViolated(rows, id) == \E i \in DOMAIN rows : rows[i].id = id

\* The steps encoded last to first.
Mutsteps_json(payload) ==
  json_dumps(JList([n \in DOMAIN payload.stepsSummary |->
                      LET step == payload.stepsSummary[Len(payload.stepsSummary) + 1 - n]
                      IN JDict(<< <<"stepId", JStr(step.stepId)>>,
                                  <<"status", JStr(step.status)>> >>)]))

\* steps_json: the steps as a list of {"stepId": ..., "status": ...}.
steps_json(payload) ==
  json_dumps(JList([n \in DOMAIN payload.stepsSummary |->
                      JDict(<< <<"stepId", JStr(payload.stepsSummary[n].stepId)>>,
                               <<"status", JStr(payload.stepsSummary[n].status)>> >>)]))

\* step_results_json: NULL when the body has no stepResults.
step_results_json(payload) ==
  IF payload.stepResults # null THEN json_dumps(payload.stepResults) ELSE None

\* test_details_json: NULL when the body has no testDetails.
test_details_json(payload) ==
  IF payload.testDetails # null THEN json_dumps(payload.testDetails) ELSE None

\* The row the INSERT statement writes.
InsertRow(q) ==
  [ id |-> q.test_id,
    created_at |-> q.created_at,
    start_time |-> q.payload.startTime,
    end_time |-> q.payload.endTime,
    duration_seconds |-> q.payload.durationSeconds,
    device_serial_number |-> strip(q.payload.deviceSerialNumber),
    device_name |-> q.payload.deviceName,
    device_firmware_version |-> q.payload.deviceFirmwareVersion,
    device_bootloader_version |-> q.payload.deviceBootloaderVersion,
    device_hardware_revision |-> q.payload.deviceHardwareRevision,
    overall_passed |-> IF q.payload.overallPassed THEN 1 ELSE 0,
    need_retest |-> IF q.payload.needRetest THEN 1 ELSE 0,
    steps_summary |-> steps_json(q.payload),
    step_results |-> step_results_json(q.payload),
    test_details |-> test_details_json(q.payload) ]

\* A body the validator refuses: 422, the handler does not run.
PostRejected(p) ==
  /\ call = NoCall
  /\ ~ProductionTestPayload(p)
  /\ call' = [op |-> "post_production_test", payload |-> p]
  /\ resp' = [status |-> 422]
  /\ UNCHANGED <<records, clock, pending, _viewers, _viewers_lock, heartbeats, summary>>

\* INSERT OR REPLACE in place of INSERT: a stored id has its row overwritten.
MutInsert(q) ==
  /\ call' = [op |-> "post_production_test", payload |-> q.payload]
  /\ records' =
       IF PrimaryKeyViolated(records, q.test_id)
       THEN [i \in DOMAIN records |->
               IF records[i].id = q.test_id THEN InsertRow(q) ELSE records[i]]
       ELSE Append(records, InsertRow(q))
  /\ resp' = [status |-> 200, ok |-> TRUE, id |-> q.test_id, createdAt |-> q.created_at]
  /\ UNCHANGED <<clock, _viewers, _viewers_lock, heartbeats, summary>>

\* The INSERT without the rollback: the row of a refused insert stays written.
MutInsertKeepsRow(q) ==
  /\ call' = [op |-> "post_production_test", payload |-> q.payload]
  /\ records' = Append(records, InsertRow(q))
  /\ resp' = IF PrimaryKeyViolated(records, q.test_id)
             THEN [status |-> 400]
             ELSE [status |-> 200, ok |-> TRUE, id |-> q.test_id, createdAt |-> q.created_at]
  /\ UNCHANGED <<clock, _viewers, _viewers_lock, heartbeats, summary>>

\* The INSERT of post_production_test and its response: IntegrityError gives
\* 400 and leaves the table as it was.
Insert(q) ==
  /\ call' = [op |-> "post_production_test", payload |-> q.payload]
  /\ IF PrimaryKeyViolated(records, q.test_id)
     THEN /\ resp' = [status |-> 400]
          /\ UNCHANGED records
     ELSE /\ records' = Append(records, InsertRow(q))
          /\ resp' = [status |-> 200, ok |-> TRUE, id |-> q.test_id, createdAt |-> q.created_at]
  /\ UNCHANGED <<clock, _viewers, _viewers_lock, heartbeats, summary>>

\* post_production_test, run to completion: draw the id, read the clock, insert.
post_production_test(p) ==
  /\ call = NoCall
  /\ ProductionTestPayload(p)
  /\ Begun < MaxRecords
  /\ \E test_id \in uuid4 :
       Insert([test_id |-> test_id, created_at |-> _now_iso(clock), payload |-> p])
  /\ UNCHANGED pending

\* First part of post_production_test, when calls overlap: draw the id, read
\* the clock.
PostBegin(p) ==
  /\ call = NoCall
  /\ ProductionTestPayload(p)
  /\ Begun < MaxRecords
  /\ BagCardinality(pending) < MaxInFlight
  /\ \E test_id \in uuid4 :
       pending' = pending (+) SetToBag({[ test_id |-> test_id,
                                          created_at |-> _now_iso(clock),
                                          payload |-> p ]})
  /\ UNCHANGED <<records, clock, _viewers, _viewers_lock, heartbeats, call, resp, summary>>

\* Second part of post_production_test, when calls overlap: the INSERT.
PostInsert(q) ==
  /\ call = NoCall
  /\ BagIn(q, pending)
  /\ pending' = pending (-) SetToBag({q})
  /\ Insert(q)

-----------------------------------------------------------------------------
(* Query parameters.                                                       *)

\* Last calendar day the clock reaches.
MaxDay == MaxClock \div SecondsPerDay

\* sn values callers pass: absent, blank, a serial number with padding.
SnArgs == { None, <<SP>>, <<SP, "A">> }

\* date_from values callers pass ("YYYY-MM-DD" as a day number): absent, or a
\* day after the first one, up to the day after the last one.
DateFromArgs == { NoDate } \cup (1 .. MaxDay + 1)

\* date_to values callers pass: absent, or a day before the last one.
DateToArgs == { NoDate } \cup (0 .. MaxDay - 1)

\* Filter sets (sn, date_from, date_to).
Filters == [sn : SnArgs, date_from : DateFromArgs, date_to : DateToArgs]

\* The conditions the handlers append for the caller's filters, as predicates
\* on a row: "device_serial_number = ?" with sn.strip(), "date(created_at) >= ?",
\* "date(created_at) <= ?".  A parameter that is None or empty adds none.
SnCondition(r, F) == Truthy(F.sn) => r.device_serial_number = strip(F.sn)

DateFromCondition(r, F) == F.date_from # NoDate => date(r.created_at) >= F.date_from

DateToCondition(r, F) == F.date_to # NoDate => date(r.created_at) <= F.date_to

FilterConditions(r, F) ==
  SnCondition(r, F) /\ DateFromCondition(r, F) /\ DateToCondition(r, F)

\* The rowids of the rows the caller's filters select.
FilterMatching(rows, F) == { i \in DOMAIN rows : FilterConditions(rows[i], F) }

\* Number of conditions the caller's filters add.
NumConditions(F) ==
  (IF Truthy(F.sn) THEN 1 ELSE 0) + (IF F.date_from # NoDate THEN 1 ELSE 0)
    + (IF F.date_to # NoDate THEN 1 ELSE 0)

-----------------------------------------------------------------------------
(* GET /api/summary.                                                       *)

\* The two conditions get_summary always starts with.
SummaryBase(r) == r.device_serial_number # None /\ r.device_serial_number # <<>>

\* WHERE of get_summary.
SummaryWhere(r, F) == SummaryBase(r) /\ FilterConditions(r, F)

\* WHERE of the today block: where + " AND date(created_at) = ?".
SummaryWhereToday(r, F, today) == SummaryWhere(r, F) /\ date(r.created_at) = today

\* The rowids of the rows the WHERE of get_summary selects.
SummaryMatching(rows, F) == { i \in DOMAIN rows : SummaryWhere(rows[i], F) }

\* The rowids of the rows the WHERE of the today block selects.
SummaryMatchingToday(rows, F, today) ==
  { i \in DOMAIN rows : SummaryWhereToday(rows[i], F, today) }

\* latest_subq: SELECT device_serial_number, MAX(created_at) ... GROUP BY
\* device_serial_number, over the selected rowids S.
latest_subq(rows, S) ==
  { <<rows[i].device_serial_number, rows[i].created_at>> : i \in
      { i \in S :
          \A j \in S :
            rows[j].device_serial_number = rows[i].device_serial_number
              => ~TsLess(rows[i].created_at, rows[j].created_at) } }

\* join_subq: production_tests t INNER JOIN latest_subq ON the serial number and
\* created_at being equal: every row of the table that pairs with a group.
join_subq(rows, S) ==
  { i \in DOMAIN rows :
      <<rows[i].device_serial_number, rows[i].created_at>> \in latest_subq(rows, S) }

\* round(100.0 * passed / total, 1) in tenths of a percent (round half to even).
pass_rate(passed, total) ==
  IF total = 0 THEN 0
  ELSE LET n == 1000 * passed
           q == n \div total
           twice == 2 * (n % total)
       IN IF twice > total \/ (twice = total /\ q % 2 = 1) THEN q + 1 ELSE q

\* The per-device block of get_summary: total, passed, failed, pass rate.
DeviceBlock(rows, S) ==
  LET joined == join_subq(rows, S)
      total  == Cardinality(joined)
      passed == Cardinality({ i \in joined : rows[i].overall_passed = 1 })
  IN [ total |-> total, passed |-> passed, failed |-> total - passed,
       passRatePercent |-> pass_rate(passed, total) ]

\* get_summary with today taken to the second instead of to the day.
Mutget_summary(rows, F, now) ==
  LET today == now
      block == DeviceBlock(rows, SummaryMatching(rows, F))
  IN [ status |-> 200,
       totalRecords |-> Cardinality(SummaryMatching(rows, F)),
       total |-> block.total,
       passed |-> block.passed,
       failed |-> block.failed,
       passRatePercent |-> block.passRatePercent,
       today |-> DeviceBlock(rows, SummaryMatchingToday(rows, F, today)) ]

\* The body of get_summary, all its queries on one state of the table.
get_summary(rows, F, now) ==
  LET today == date(_now_iso(now))
      block == DeviceBlock(rows, SummaryMatching(rows, F))
  IN [ status |-> 200,
       totalRecords |-> Cardinality(SummaryMatching(rows, F)),
       total |-> block.total,
       passed |-> block.passed,
       failed |-> block.failed,
       passRatePercent |-> block.passRatePercent,
       today |-> DeviceBlock(rows, SummaryMatchingToday(rows, F, today)) ]

\* GET /api/summary handled.
GetSummary(F) ==
  /\ call = NoCall
  /\ call' = [op |-> "get_summary", F |-> F, now |-> clock]
  /\ resp' = get_summary(records, F, clock)
  /\ UNCHANGED <<records, clock, pending, _viewers, _viewers_lock, heartbeats, summary>>

\* get_summary, one statement of the connection at a time: sqlite3 runs each
\* SELECT on the table as committed when it executes, so a commit of
\* post_production_test can fall between two of them.
\* The handler reads today, builds the conditions, and counts the records.
SummaryBegin(F) ==
  /\ call = NoCall
  /\ summary = NoSummary
  /\ summary' = [ pc |-> "total", F |-> F, now |-> clock,
                  today |-> date(_now_iso(clock)),
                  totalRecords |-> Cardinality(SummaryMatching(records, F)),
                  total |-> 0, passed |-> 0, today_count |-> 0 ]
  /\ UNCHANGED <<records, clock, pending, _viewers, _viewers_lock, heartbeats, call, resp>>

\* SELECT COUNT(*) FROM (join_subq).
SummaryTotal ==
  /\ call = NoCall
  /\ summary.pc = "total"
  /\ summary' = [summary EXCEPT
                   !.pc = "passed",
                   !.total = DeviceBlock(records, SummaryMatching(records, summary.F)).total]
  /\ UNCHANGED <<records, clock, pending, _viewers, _viewers_lock, heartbeats, call, resp>>

\* SELECT COUNT(*) FROM (join_subq) WHERE overall_passed = 1.
SummaryPassed ==
  /\ call = NoCall
  /\ summary.pc = "passed"
  /\ summary' = [summary EXCEPT
                   !.pc = "today_total",
                   !.passed = DeviceBlock(records, SummaryMatching(records, summary.F)).passed]
  /\ UNCHANGED <<records, clock, pending, _viewers, _viewers_lock, heartbeats, call, resp>>

\* SELECT COUNT(*) FROM (join_today_subq).
SummaryTodayTotal ==
  /\ call = NoCall
  /\ summary.pc = "today_total"
  /\ summary' = [summary EXCEPT
                   !.pc = "today_passed",
                   !.today_count =
                      DeviceBlock(records,
                                  SummaryMatchingToday(records, summary.F, summary.today)).total]
  /\ UNCHANGED <<records, clock, pending, _viewers, _viewers_lock, heartbeats, call, resp>>

\* SELECT COUNT(*) FROM (join_today_subq) WHERE overall_passed = 1, and the
\* response built from the five counts.
SummaryRespond ==
  /\ call = NoCall
  /\ summary.pc = "today_passed"
  /\ LET today_passed ==
           DeviceBlock(records,
                       SummaryMatchingToday(records, summary.F, summary.today)).passed
     IN resp' = [ status |-> 200,
                  totalRecords |-> summary.totalRecords,
                  total |-> summary.total,
                  passed |-> summary.passed,
                  failed |-> summary.total - summary.passed,
                  passRatePercent |-> pass_rate(summary.passed, summary.total),
                  today |-> [ total |-> summary.today_count,
                              passed |-> today_passed,
                              failed |-> summary.today_count - today_passed,
                              passRatePercent |->
                                pass_rate(today_passed, summary.today_count) ] ]
  /\ call' = [op |-> "get_summary", F |-> summary.F, now |-> summary.now]
  /\ summary' = NoSummary
  /\ UNCHANGED <<records, clock, pending, _viewers, _viewers_lock, heartbeats>>

-----------------------------------------------------------------------------
(* GET /api/records, GET /api/export, GET /api/sn-list.                    *)

\* Whether the statement parses: the text between "FROM production_tests" and
\* "ORDER BY" is empty, or starts with the keyword the handler put there.
SqlParses(keyword, F) == NumConditions(F) = 0 \/ keyword = "WHERE"

\* Order of two rows with equal created_at under ORDER BY created_at DESC.  The
\* statement names no second key; SQLite returns them in the order of its
\* access path, the same at every run of the same statement: a search on
\* idx_pt_sn followed by a sort keeps rowid order, a backward scan of
\* idx_pt_created reverses it.
TieAscending(F) == Truthy(F.sn)

\* ORDER BY created_at, the DESC left out.
MutBefore(rows, F, i, j) ==
  \/ TsLess(rows[i].created_at, rows[j].created_at)
  \/ /\ rows[i].created_at = rows[j].created_at
     /\ IF TieAscending(F) THEN i < j ELSE i > j

\* Row i comes before row j in ORDER BY created_at DESC.
Before(rows, F, i, j) ==
  \/ TsLess(rows[j].created_at, rows[i].created_at)
  \/ /\ rows[i].created_at = rows[j].created_at
     /\ IF TieAscending(F) THEN i < j ELSE i > j

\* ORDER BY created_at DESC over the rowids S.
RECURSIVE OrderByCreatedAtDesc(_, _, _)
OrderByCreatedAtDesc(rows, F, S) ==
  IF S = {} THEN <<>>
  ELSE LET first == CHOOSE i \in S : \A j \in S \ {i} : Before(rows, F, i, j)
       IN <<first>> \o OrderByCreatedAtDesc(rows, F, S \ {first})

\* LIMIT ? OFFSET ? with the offset counted from the row before.
MutLimitOffset(seq, limit, offset) ==
  SubSeq(seq, IF offset = 0 THEN 1 ELSE offset,
         IF offset + limit < Len(seq) THEN offset + limit ELSE Len(seq))

\* LIMIT ? OFFSET ?.
LimitOffset(seq, limit, offset) ==
  SubSeq(seq, offset + 1, IF offset + limit < Len(seq) THEN offset + limit ELSE Len(seq))

\* row_to_item raises: step_results is decoded outside any try.
RowRaises(r) ==
  Truthy(r.step_results) /\ json_loads(r.step_results) = JSONDecodeError

\* row_to_item: the item of a row.  steps_summary and test_details are decoded
\* inside a try that leaves the default ([] and None) on JSONDecodeError.
row_to_item(r) ==
  [ id |-> r.id,
    createdAt |-> r.created_at,
    startTime |-> r.start_time,
    endTime |-> r.end_time,
    durationSeconds |-> r.duration_seconds,
    deviceSerialNumber |-> r.device_serial_number,
    deviceName |-> r.device_name,
    deviceFirmwareVersion |-> r.device_firmware_version,
    deviceBootloaderVersion |-> r.device_bootloader_version,
    deviceHardwareRevision |-> r.device_hardware_revision,
    overallPassed |-> r.overall_passed # 0,
    needRetest |-> r.need_retest # 0,
    stepsSummary |->
      IF Truthy(r.steps_summary) /\ json_loads(r.steps_summary) # JSONDecodeError
      THEN json_loads(r.steps_summary) ELSE JList(<<>>),
    stepResults |-> IF Truthy(r.step_results) THEN json_loads(r.step_results) ELSE null,
    testDetails |->
      IF Truthy(r.test_details) /\ json_loads(r.test_details) # JSONDecodeError
      THEN json_loads(r.test_details) ELSE null ]

\* The body of get_records.
get_records(rows, limit, offset, F) ==
  IF ~SqlParses("WHERE", F) THEN [status |-> 500]
  ELSE LET ordered == OrderByCreatedAtDesc(rows, F, FilterMatching(rows, F))
           page == LimitOffset(ordered, limit, offset)
       IN IF \E k \in DOMAIN page : RowRaises(rows[page[k]]) THEN [status |-> 500]
          ELSE [ status |-> 200,
                 total |-> Cardinality(FilterMatching(rows, F)),
                 limit |-> limit,
                 offset |-> offset,
                 items |-> [k \in DOMAIN page |-> row_to_item(rows[page[k]])] ]

\* GET /api/records handled.
GetRecords(limit, offset, F) ==
  /\ call = NoCall
  /\ call' = [op |-> "get_records", limit |-> limit, offset |-> offset, F |-> F]
  /\ resp' = get_records(records, limit, offset, F)
  /\ UNCHANGED <<records, clock, pending, _viewers, _viewers_lock, heartbeats, summary>>

\* The header row export_csv writes (the key, the timestamp and the columns
\* the filters and the summary read).
CsvHeader == <<"id", "created_at", "device_serial_number", "overall_passed">>

\* The body of export_csv: where = " AND " + conditions, put after the table name.
export_csv(rows, F) ==
  IF ~SqlParses("AND", F) THEN [status |-> 500]
  ELSE LET ordered == OrderByCreatedAtDesc(rows, F, FilterMatching(rows, F))
       IN [ status |-> 200,
            header |-> CsvHeader,
            rows |-> [k \in DOMAIN ordered |->
                        << rows[ordered[k]].id,
                           rows[ordered[k]].created_at,
                           rows[ordered[k]].device_serial_number,
                           IF rows[ordered[k]].overall_passed # 0 THEN 1 ELSE 0 >>] ]

\* GET /api/export handled.
ExportCsv(F) ==
  /\ call = NoCall
  /\ call' = [op |-> "export_csv", F |-> F]
  /\ resp' = export_csv(records, F)
  /\ UNCHANGED <<records, clock, pending, _viewers, _viewers_lock, heartbeats, summary>>

\* ORDER BY device_serial_number DESC over a set of serial numbers.
RECURSIVE MutOrderBySerial(_)
MutOrderBySerial(S) ==
  IF S = {} THEN <<>>
  ELSE LET first == CHOOSE a \in S : \A b \in S \ {a} : TextLess(b, a)
       IN <<first>> \o MutOrderBySerial(S \ {first})

\* ORDER BY device_serial_number over a set of serial numbers.
RECURSIVE OrderBySerial(_)
OrderBySerial(S) ==
  IF S = {} THEN <<>>
  ELSE LET first == CHOOSE a \in S : \A b \in S \ {a} : TextLess(a, b)
       IN <<first>> \o OrderBySerial(S \ {first})

\* The body of get_sn_list.
get_sn_list(rows) ==
  [ status |-> 200,
    list |-> OrderBySerial({ rows[i].device_serial_number :
                               i \in { i \in DOMAIN rows : SummaryBase(rows[i]) } }) ]

\* GET /api/sn-list handled.
GetSnList ==
  /\ call = NoCall
  /\ call' = [op |-> "get_sn_list"]
  /\ resp' = get_sn_list(records)
  /\ UNCHANGED <<records, clock, pending, _viewers, _viewers_lock, heartbeats, summary>>

-----------------------------------------------------------------------------
(* GET /api/viewers and GET /.                                             *)

VIEWER_TIMEOUT_SEC == 60

\* Caller addresses of heartbeats.
ViewerIps == { "10.0.0.1" }

\* The viewer map as a sequence of <<ip, last heartbeat>> in dict order.
ViewerKeys(v) == { v[k][1] : k \in DOMAIN v }

\* _viewers[ip] = now: an existing key keeps its place, a new one goes last.
Upsert(v, ip, now) ==
  IF ip \in ViewerKeys(v)
  THEN [k \in DOMAIN v |-> IF v[k][1] = ip THEN <<ip, now>> ELSE v[k]]
  ELSE Append(v, <<ip, now>>)

\* The entries to_del leaves.
Purge(v, now) == SelectSeq(v, LAMBDA e : ~(now - e[2] > VIEWER_TIMEOUT_SEC))

\* Number of addresses a response lists.
MaxIps == 10

\* sorted(_viewers.keys(), key=lambda k: -_viewers[k]): most recent first, equal
\* timestamps in dict order (the sort is stable).
RECURSIVE SortedByRecency(_)
SortedByRecency(v) ==
  IF v = <<>> THEN <<>>
  ELSE LET k == CHOOSE k \in DOMAIN v :
                  \A l \in DOMAIN v : v[l][2] < v[k][2] \/ (v[l][2] = v[k][2] /\ k <= l)
       IN <<v[k][1]>> \o SortedByRecency(SubSeq(v, 1, k - 1) \o SubSeq(v, k + 1, Len(v)))

\* GET /api/viewers handled.
ApiViewers(ip) ==
  /\ call = NoCall
  /\ call' = [op |-> "api_viewers", ip |-> ip, now |-> clock]
  /\ _viewers' = Purge(Upsert(_viewers, ip, clock), clock)
  /\ resp' = [ status |-> 200,
               count |-> Len(_viewers'),
               ips |-> SubSeq(SortedByRecency(_viewers'), 1,
                              IF Len(_viewers') < MaxIps THEN Len(_viewers') ELSE MaxIps) ]
  /\ UNCHANGED <<records, clock, pending, _viewers_lock, heartbeats, summary>>

\* Caller addresses of overlapping heartbeats.
HeartbeatIps == { "10.0.0.1", "10.0.0.2" }

\* with _viewers_lock: a thread enters when no thread holds the lock.
MutAcquirable(lock) == TRUE

Acquirable(lock) == ~lock

\* A call in progress moves on: frame h is replaced by frame g.
Moved(h, g) == (heartbeats (-) SetToBag({h})) (+) SetToBag({g})

\* api_viewers up to the lock: the caller address and the clock are read.
ViewersBegin(ip) ==
  /\ call = NoCall
  /\ BagCardinality(heartbeats) < MaxHeartbeats
  /\ heartbeats' = heartbeats (+) SetToBag({[ ip |-> ip, now |-> clock, pc |-> "lock",
                                             to_del |-> <<>>, ips |-> <<>> ]})
  /\ UNCHANGED <<records, clock, pending, _viewers, _viewers_lock, call, resp, summary>>

\* The lock is taken and _viewers[ip] = now runs.
ViewersUpsert(h) ==
  /\ call = NoCall
  /\ BagIn(h, heartbeats)
  /\ h.pc = "lock"
  /\ Acquirable(_viewers_lock)
  /\ _viewers_lock' = TRUE
  /\ _viewers' = Upsert(_viewers, h.ip, h.now)
  /\ heartbeats' = Moved(h, [h EXCEPT !.pc = "scan"])
  /\ UNCHANGED <<records, clock, pending, call, resp, summary>>

\* to_del: the keys whose timestamp is more than VIEWER_TIMEOUT_SEC before now,
\* in dict order.
to_del(v, now) ==
  LET old == SelectSeq(v, LAMBDA e : now - e[2] > VIEWER_TIMEOUT_SEC)
  IN [n \in DOMAIN old |-> old[n][1]]

\* The list to_del is built.
ViewersScan(h) ==
  /\ call = NoCall
  /\ BagIn(h, heartbeats)
  /\ h.pc = "scan"
  /\ heartbeats' = Moved(h, [h EXCEPT !.pc = "delete", !.to_del = to_del(_viewers, h.now)])
  /\ UNCHANGED <<records, clock, pending, _viewers, _viewers_lock, call, resp, summary>>

\* del _viewers[k] for the first keys of a list that are in the dict.
RECURSIVE Delete(_, _)
Delete(v, keys) ==
  IF keys = <<>> \/ Head(keys) \notin ViewerKeys(v) THEN v
  ELSE Delete(SelectSeq(v, LAMBDA e : e[1] # Head(keys)), Tail(keys))

\* The first ips of a sorted list.
FirstIps(sorted) == SubSeq(sorted, 1, IF Len(sorted) < MaxIps THEN Len(sorted) ELSE MaxIps)

\* The keys of to_del are deleted, ips is sorted and the lock is released; a key
\* that is no longer in the dict raises KeyError, which leaves the with block.
ViewersDelete(h) ==
  /\ call = NoCall
  /\ BagIn(h, heartbeats)
  /\ h.pc = "delete"
  /\ _viewers' = Delete(_viewers, h.to_del)
  /\ _viewers_lock' = FALSE
  /\ heartbeats' =
       IF \A n \in DOMAIN h.to_del : h.to_del[n] \in ViewerKeys(_viewers)
       THEN Moved(h, [h EXCEPT !.pc = "return", !.ips = FirstIps(SortedByRecency(_viewers'))])
       ELSE Moved(h, [h EXCEPT !.pc = "KeyError"])
  /\ UNCHANGED <<records, clock, pending, call, resp, summary>>

\* After the with block: len(_viewers) is read and the response is built.
ViewersRespond(h) ==
  /\ call = NoCall
  /\ BagIn(h, heartbeats)
  /\ h.pc \in {"return", "KeyError"}
  /\ heartbeats' = heartbeats (-) SetToBag({h})
  /\ call' = [op |-> "api_viewers", ip |-> h.ip, now |-> h.now, to_del |-> h.to_del]
  /\ resp' = IF h.pc = "KeyError" THEN [status |-> 500]
             ELSE [status |-> 200, count |-> Len(_viewers), ips |-> h.ips]
  /\ UNCHANGED <<records, clock, pending, _viewers, _viewers_lock, summary>>

\* A timer that removes the entries older than the timeout as time passes.
MutIdle ==
  /\ call = NoCall
  /\ clock + VIEWER_TIMEOUT_SEC <= MaxClock + MaxIdle * VIEWER_TIMEOUT_SEC
  /\ clock' = clock + VIEWER_TIMEOUT_SEC
  /\ _viewers' = Purge(_viewers, clock')
  /\ UNCHANGED <<records, pending, _viewers_lock, heartbeats, call, resp, summary>>

\* No request arrives for VIEWER_TIMEOUT_SEC seconds.
Idle ==
  /\ call = NoCall
  /\ clock + VIEWER_TIMEOUT_SEC <= MaxClock + MaxIdle * VIEWER_TIMEOUT_SEC
  /\ clock' = clock + VIEWER_TIMEOUT_SEC
  /\ UNCHANGED <<records, pending, _viewers, _viewers_lock, heartbeats, call, resp, summary>>

\* GET / handled: the page is a constant of the program.
Dashboard ==
  /\ call = NoCall
  /\ call' = [op |-> "dashboard"]
  /\ resp' = [status |-> 200, body |-> "DASHBOARD_HTML"]
  /\ UNCHANGED <<records, clock, pending, _viewers, _viewers_lock, heartbeats, summary>>

\* The service clock advances.
Tick ==
  /\ call = NoCall
  /\ clock < MaxClock
  /\ clock' = clock + 1
  /\ UNCHANGED <<records, pending, _viewers, _viewers_lock, heartbeats, call, resp, summary>>

\* The caller takes the response; the next call can be observed.
Return ==
  /\ call # NoCall
  /\ call' = NoCall
  /\ resp' = NoResp
  /\ UNCHANGED <<records, clock, pending, _viewers, _viewers_lock, heartbeats, summary>>

-----------------------------------------------------------------------------

Init ==
  /\ records = <<>>
  /\ clock = 0
  /\ pending = EmptyBag
  /\ _viewers = <<>>
  /\ _viewers_lock = FALSE
  /\ heartbeats = EmptyBag
  /\ summary = NoSummary
  /\ call = NoCall
  /\ resp = NoResp

Next ==
  \/ \E p \in Payloads : PostRejected(p)
  \/ \E p \in Payloads : post_production_test(p)
  \/ \E F \in Filters : GetSummary(F)
  \/ \E limit \in 1 .. MaxLimit, offset \in 0 .. MaxRecords - 1, F \in Filters :
       GetRecords(limit, offset, F)
  \/ \E F \in Filters : ExportCsv(F)
  \/ GetSnList
  \/ Dashboard
  \/ Tick
  \/ Return

Spec == Init /\ [][Next]_vars

\* Every operation of the API, each run to completion.
NextApi ==
  \/ Next
  \/ \E ip \in ViewerIps : ApiViewers(ip)

SpecApi == Init /\ [][NextApi]_vars

\* No sn, date_from or date_to given.
NoFilters == [sn |-> None, date_from |-> NoDate, date_to |-> NoDate]

\* Bodies with all their fields are stored and listed.
NextRoundTrip ==
  \/ \E p \in DetailedPayloads : PostRejected(p)
  \/ \E p \in DetailedPayloads : post_production_test(p)
  \/ \E limit \in 1 .. MaxLimit, offset \in 0 .. MaxRecords - 1 :
       GetRecords(limit, offset, NoFilters)
  \/ Tick
  \/ Return

SpecRoundTrip == Init /\ [][NextRoundTrip]_vars

\* Overlapping ingestion calls: each is a clock read followed, later, by its INSERT.
NextIngest ==
  \/ \E p \in Payloads : PostRejected(p)
  \/ \E p \in Payloads : PostBegin(p)
  \/ \E q \in BagToSet(pending) : PostInsert(q)
  \/ Tick
  \/ Return

SpecIngest == Init /\ [][NextIngest]_vars

\* Overlapping api_viewers calls: each is a clock read, the critical section
\* under _viewers_lock in its steps, and the response built after it.
NextViewers ==
  \/ \E ip \in HeartbeatIps : ViewersBegin(ip)
  \/ \E h \in BagToSet(heartbeats) : ViewersUpsert(h)
  \/ \E h \in BagToSet(heartbeats) : ViewersScan(h)
  \/ \E h \in BagToSet(heartbeats) : ViewersDelete(h)
  \/ \E h \in BagToSet(heartbeats) : ViewersRespond(h)
  \/ Tick
  \/ Idle
  \/ Return

SpecViewers == Init /\ [][NextViewers]_vars

\* Texts found in the JSON columns of a database file written before the
\* service started: NULL, the empty text, a JSON text, a text cut short.
StoredTexts == { None, <<>>, <<"{", "}">>, <<"{", "k", ":">> }

\* A row of such a file.
StoredRow(steps, results, details) ==
  [ InsertRow([test_id |-> 1, created_at |-> _now_iso(0), payload |-> Body(<<"A">>, TRUE, Omitted)])
      EXCEPT !.steps_summary = steps, !.step_results = results, !.test_details = details ]

\* The service starts on a database file that holds one row.
InitStored ==
  /\ \E steps \in StoredTexts, results \in StoredTexts, details \in StoredTexts :
       records = <<StoredRow(steps, results, details)>>
  /\ clock = 0
  /\ pending = EmptyBag
  /\ _viewers = <<>>
  /\ _viewers_lock = FALSE
  /\ heartbeats = EmptyBag
  /\ summary = NoSummary
  /\ call = NoCall
  /\ resp = NoResp

\* Records are added to the file and listed.
NextStored ==
  \/ \E p \in Payloads : PostRejected(p)
  \/ \E p \in Payloads : post_production_test(p)
  \/ \E limit \in 1 .. MaxLimit, offset \in 0 .. MaxRecords - 1 :
       GetRecords(limit, offset, NoFilters)
  \/ Tick
  \/ Return

SpecStored == InitStored /\ [][NextStored]_vars

\* The presence tracker next to the other operations, each call run to
\* completion, the reads without filters, while time passes.
NextPresence ==
  \/ \E ip \in HeartbeatIps : ApiViewers(ip)
  \/ \E p \in Payloads : Len(records) < MaxPresenceRecords /\ post_production_test(p)
  \/ GetSummary(NoFilters)
  \/ \E limit \in 1 .. MaxLimit : GetRecords(limit, 0, NoFilters)
  \/ ExportCsv(NoFilters)
  \/ GetSnList
  \/ Dashboard
  \/ Tick
  \/ Idle
  \/ Return

SpecPresence == Init /\ [][NextPresence]_vars

\* The filters of the summary calls taken statement by statement: any serial
\* number argument, no date range.
SummaryFilters == { F \in Filters : F.date_from = NoDate /\ F.date_to = NoDate }

\* Summary calls taken statement by statement, while records are posted and
\* time passes.
NextSummary ==
  \/ \E p \in Payloads : post_production_test(p)
  \/ \E F \in SummaryFilters : SummaryBegin(F)
  \/ SummaryTotal
  \/ SummaryPassed
  \/ SummaryTodayTotal
  \/ SummaryRespond
  \/ Tick
  \/ Return

SpecSummary == Init /\ [][NextSummary]_vars

-----------------------------------------------------------------------------
(* Properties of get_summary.                                              *)

\* The rows the filtered set of the summary call under observation holds.
SummaryRows == { i \in DOMAIN records : SummaryWhere(records[i], call.F) }

\* The devices of a set of rows.
DevicesOf(S) == { records[i].device_serial_number : i \in S }

\* The rows of device d in S.
RowsOf(d, S) == { i \in S : records[i].device_serial_number = d }

\* The single latest row of device d in S: maximal created_at, ties by id.
LatestRow(d, S) ==
  CHOOSE i \in RowsOf(d, S) :
    \A j \in RowsOf(d, S) :
      \/ TsLess(records[j].created_at, records[i].created_at)
      \/ /\ records[j].created_at = records[i].created_at
         /\ records[j].id <= records[i].id

\* C1: the total of a summary is the number of distinct devices of its filtered
\* set, each device counted once, also when several of its records share the
\* maximal created_at.
C1_TotalCountsEachDeviceOnce ==
  call.op = "get_summary" => resp.total = Cardinality(DevicesOf(SummaryRows))

\* C2: the latest result wins: passed and failed count the devices of the
\* filtered set by the verdict of their single latest record.
C2_LatestResultWins ==
  call.op = "get_summary" =>
    /\ resp.passed = Cardinality({ d \in DevicesOf(SummaryRows) :
                                     records[LatestRow(d, SummaryRows)].overall_passed = 1 })
    /\ resp.failed = Cardinality({ d \in DevicesOf(SummaryRows) :
                                     records[LatestRow(d, SummaryRows)].overall_passed = 0 })

\* C3: total <= totalRecords, with equality exactly when every device of the
\* filtered set has one matching record.
C3_TotalAtMostTotalRecords ==
  call.op = "get_summary" =>
    /\ resp.total <= resp.totalRecords
    /\ resp.total = resp.totalRecords
         <=> \A d \in DevicesOf(SummaryRows) : Cardinality(RowsOf(d, SummaryRows)) = 1

\* C4: totalRecords is the number of stored records matching the filter, the
\* total get_records returns for the same sn, date_from and date_to.
C4_TotalRecordsIsListingTotal ==
  call.op = "get_summary" =>
    resp.totalRecords = get_records(records, 1, 0, call.F).total

\* The rows of the filtered set created on the UTC date of the summary call
\* under observation.
TodayRows ==
  { i \in SummaryRows : date(records[i].created_at) = date(_now_iso(call.now)) }

\* C16: the today block is the per-device-latest computation on the records
\* that match the filters and were created on the current UTC date: total is
\* the number of distinct devices, passed and failed count them by the verdict
\* of their latest record of today, and the rate is 0.0 when there is none.
C16_TodayBlock ==
  call.op = "get_summary" =>
    /\ resp.today.total = Cardinality(DevicesOf(TodayRows))
    /\ resp.today.passed = Cardinality({ d \in DevicesOf(TodayRows) :
                                           records[LatestRow(d, TodayRows)].overall_passed = 1 })
    /\ resp.today.failed = Cardinality({ d \in DevicesOf(TodayRows) :
                                           records[LatestRow(d, TodayRows)].overall_passed = 0 })
    /\ resp.today.total = 0 => resp.today.passRatePercent = 0

\* The clock values at which a second call can follow a call made at now.
LaterThan(now) == now .. (MaxClock + MaxIdle * VIEWER_TIMEOUT_SEC)

\* C17 as stated: a get_summary call changes no record, and a second call with
\* the same filters at any later time, no record having been added, returns
\* what the first returned.
C17_RepeatedSummaryIsIdentical ==
  [][ (call = NoCall /\ call'.op = "get_summary") =>
        /\ records' = records
        /\ \A now2 \in LaterThan(call'.now) :
             get_summary(records', call'.F, now2) = resp' ]_vars

\* C17, amended: a get_summary call changes no record, and a second call with
\* the same filters on the same UTC date, no record having been added, returns
\* what the first returned.
C17_RepeatedSummarySameDay ==
  [][ (call = NoCall /\ call'.op = "get_summary") =>
        /\ records' = records
        /\ \A now2 \in LaterThan(call'.now) :
             date(_now_iso(now2)) = date(_now_iso(call'.now)) =>
               get_summary(records', call'.F, now2) = resp' ]_vars

\* A summary with a device of today was returned in the first second of a
\* day; a later second of that day and a later day both exist.
C17_Witness ==
  /\ call.op = "get_summary"
  /\ resp.today.total >= 1
  /\ \E now2 \in LaterThan(call.now) :
       now2 > call.now /\ date(_now_iso(now2)) = date(_now_iso(call.now))
  /\ \E now2 \in LaterThan(call.now) : date(_now_iso(now2)) > date(_now_iso(call.now))

-----------------------------------------------------------------------------
(* Properties of the stored records.                                       *)

\* C5: stored records have pairwise different ids and a deviceSerialNumber that
\* is not empty after trimming.
C5_UniqueIdNonEmptySerial ==
  \A i \in DOMAIN records :
    /\ strip(records[i].device_serial_number) # <<>>
    /\ \A j \in DOMAIN records : i # j => records[i].id # records[j].id

-----------------------------------------------------------------------------
(* Properties of export_csv and get_records.                               *)

\* The stored records a filter set selects: the serial number equal to the
\* trimmed sn, the day of created_at within date_from .. date_to.
Selected(F) ==
  { i \in DOMAIN records :
      /\ (F.sn = None \/ F.sn = <<>> \/ records[i].device_serial_number = strip(F.sn))
      /\ (F.date_from = NoDate \/ date(records[i].created_at) >= F.date_from)
      /\ (F.date_to = NoDate \/ date(records[i].created_at) <= F.date_to) }

\* C6: for every filter set export_csv succeeds and returns the header row and
\* one row for each selected record, by created_at descending.
C6_ExportSucceeds ==
  call.op = "export_csv" =>
    /\ resp.status = 200
    /\ resp.header = CsvHeader
    /\ Len(resp.rows) = Cardinality(Selected(call.F))
    /\ { resp.rows[k][1] : k \in DOMAIN resp.rows } = { records[i].id : i \in Selected(call.F) }
    /\ \A k \in DOMAIN resp.rows : k > 1 => ~TsLess(resp.rows[k - 1][2], resp.rows[k][2])

\* The pages after the first of a walk with a fixed limit, up to the first
\* empty page, the table staying as it is.
RECURSIVE PagesFrom(_, _, _)
PagesFrom(limit, offset, F) ==
  LET page == get_records(records, limit, offset, F).items
  IN IF page = <<>> THEN <<>> ELSE page \o PagesFrom(limit, offset + limit, F)

\* All pages of the walk the call under observation starts.
Walk ==
  IF resp.items = <<>> THEN <<>>
  ELSE resp.items \o PagesFrom(call.limit, call.limit, call.F)

\* C7: the pages of a walk from offset 0 hold, together, each selected record
\* once, total items in all, by created_at descending.
C7_PaginationComplete ==
  (call.op = "get_records" /\ call.offset = 0) =>
    /\ resp.status = 200
    /\ Len(Walk) = resp.total
    /\ \A k, l \in DOMAIN Walk : k # l => Walk[k].id # Walk[l].id
    /\ { Walk[k].id : k \in DOMAIN Walk } = { records[i].id : i \in Selected(call.F) }
    /\ \A k \in DOMAIN Walk : k > 1 => ~TsLess(Walk[k - 1].createdAt, Walk[k].createdAt)

\* A walk of three one-item pages over records two of which share created_at.
C7_Witness ==
  /\ call.op = "get_records" /\ call.offset = 0 /\ call.limit = 1
  /\ resp.total = 3
  /\ Len(Walk) = 3
  /\ \E i, j \in Selected(call.F) : i # j /\ records[i].created_at = records[j].created_at

\* C8: the items are the selected records at positions offset+1 .. offset+limit
\* of the order by created_at descending, total counts every selected record,
\* and an offset at or past total gives an empty page with status 200.
C8_PageIsSliceOfOrder ==
  call.op = "get_records" =>
    LET S == Selected(call.F)
        n == Cardinality(S)
        rest == IF call.offset >= n THEN 0 ELSE n - call.offset
    IN /\ resp.status = 200
       /\ resp.total = n
       /\ Len(resp.items) = (IF rest < call.limit THEN rest ELSE call.limit)
       /\ \A k, l \in DOMAIN resp.items : k # l => resp.items[k].id # resp.items[l].id
       /\ \A k \in DOMAIN resp.items :
            LET item == resp.items[k]
                newer == { i \in S : TsLess(item.createdAt, records[i].created_at) }
                notOlder == { i \in S : ~TsLess(records[i].created_at, item.createdAt) }
            IN /\ \E i \in S : /\ records[i].id = item.id
                               /\ records[i].created_at = item.createdAt
                               /\ records[i].device_serial_number = item.deviceSerialNumber
                               /\ (records[i].overall_passed = 1) = item.overallPassed
               /\ Cardinality(newer) < call.offset + k
               /\ call.offset + k <= Cardinality(notOlder)

\* The second and third of three selected records with three different
\* created_at values are asked for.
C8_Witness ==
  /\ call.op = "get_records" /\ call.offset = 1 /\ call.limit = 2
  /\ resp.total = 3
  /\ Len(resp.items) = 2
  /\ TsLess(resp.items[2].createdAt, resp.items[1].createdAt)
  /\ \E i \in Selected(call.F) : TsLess(resp.items[1].createdAt, records[i].created_at)

-----------------------------------------------------------------------------
(* Properties of ingestion.                                                *)

\* C9: a post_production_test call that answers 200 appends one record and
\* changes nothing else; the record's id is none of the stored ids, and the id
\* and createdAt of the response are the record's.
C9_EachPostAddsOneRecord ==
  [][ (call = NoCall /\ call'.op = "post_production_test" /\ resp'.status = 200) =>
        /\ Len(records') = Len(records) + 1
        /\ SubSeq(records', 1, Len(records)) = records
        /\ \A i \in DOMAIN records : records[i].id # records'[Len(records')].id
        /\ resp'.id = records'[Len(records')].id
        /\ resp'.createdAt = records'[Len(records')].created_at
        /\ UNCHANGED <<clock, _viewers>> ]_vars

\* The same body was stored twice, under two ids, while a third call is in flight.
C9_Witness ==
  /\ call.op = "post_production_test" /\ resp.status = 200
  /\ pending # EmptyBag
  /\ Len(records) >= 2
  /\ LET last == records[Len(records)]
         prev == records[Len(records) - 1]
     IN /\ last.device_serial_number = prev.device_serial_number
        /\ last.overall_passed = prev.overall_passed
        /\ last.created_at = prev.created_at
        /\ last.id # prev.id
        /\ last.id = resp.id

\* C10: no operation changes or removes a stored record.
C10_RecordsImmutable ==
  [][ \A i \in DOMAIN records : i \in DOMAIN records' /\ records'[i] = records[i] ]_vars

\* A record was stored after two others and a heartbeat, and the two are
\* still there.
C10_Witness ==
  /\ call.op = "post_production_test" /\ resp.status = 200
  /\ Len(records) = 3
  /\ records[3].id = resp.id
  /\ _viewers # <<>>

\* C11: created_at follows insertion order: of two stored records, the one
\* inserted first has the created_at that is not the later one, for every
\* interleaving of calls that read the clock first and insert afterwards.
C11_CreatedAtMonotone ==
  \A i, j \in DOMAIN records :
    i < j => ~TsLess(records[j].created_at, records[i].created_at)

-----------------------------------------------------------------------------
(* Round trip of a body through the table.                                 *)

\* The value of a key in the members of a decoded dict (null when absent).
Member(members, key) ==
  IF \E m \in DOMAIN members : members[m][1] = key
  THEN members[CHOOSE m \in DOMAIN members : members[m][1] = key][2]
  ELSE null

\* The item has the fields of body P, the serial number trimmed, and the id
\* and createdAt the service assigned.
IsItemOf(item, P, id, createdAt) ==
  /\ item.id = id
  /\ item.createdAt = createdAt
  /\ item.startTime = P.startTime
  /\ item.endTime = P.endTime
  /\ item.durationSeconds = P.durationSeconds
  /\ item.deviceSerialNumber = strip(P.deviceSerialNumber)
  /\ item.deviceName = P.deviceName
  /\ item.deviceFirmwareVersion = P.deviceFirmwareVersion
  /\ item.deviceBootloaderVersion = P.deviceBootloaderVersion
  /\ item.deviceHardwareRevision = P.deviceHardwareRevision
  /\ item.overallPassed = P.overallPassed
  /\ item.needRetest = P.needRetest
  /\ item.stepsSummary.k = "list"
  /\ Len(item.stepsSummary.items) = Len(P.stepsSummary)
  /\ \A n \in DOMAIN P.stepsSummary :
       /\ item.stepsSummary.items[n].k = "dict"
       /\ Len(item.stepsSummary.items[n].members) = 2
       /\ Member(item.stepsSummary.items[n].members, "stepId") = JStr(P.stepsSummary[n].stepId)
       /\ Member(item.stepsSummary.items[n].members, "status") = JStr(P.stepsSummary[n].status)
  /\ item.stepResults = P.stepResults
  /\ item.testDetails = P.testDetails

\* C12: after post_production_test(P) answers 200, get_records returns an item
\* with the returned id, and every item it returns with that id has P's fields:
\* the serial number trimmed, id and createdAt as returned, the steps in the
\* client's order.
C12_RoundTrip ==
  [][ (call = NoCall /\ call'.op = "post_production_test" /\ resp'.status = 200) =>
        /\ \E limit \in 1 .. MaxLimit, offset \in 0 .. MaxRecords - 1 :
             LET r == get_records(records', limit, offset, NoFilters)
             IN r.status = 200 /\ \E n \in DOMAIN r.items : r.items[n].id = resp'.id
        /\ \A limit \in 1 .. MaxLimit, offset \in 0 .. MaxRecords - 1, F \in Filters :
             LET r == get_records(records', limit, offset, F)
             IN r.status = 200 /\ \A n \in DOMAIN r.items :
                  r.items[n].id = resp'.id =>
                    IsItemOf(r.items[n], call'.payload, resp'.id, resp'.createdAt) ]_vars

\* A body with a padded serial number, two steps, step results and nested
\* details was stored after two others, and the listing shows it first, with
\* its two steps and its three details.
C12_Witness ==
  /\ call.op = "post_production_test" /\ resp.status = 200
  /\ call.payload = Body(<<"A", SP>>, TRUE, Filled)
  /\ Len(records) = 3
  /\ LET item == get_records(records, 2, 0, NoFilters).items[1]
     IN /\ item.id = resp.id
        /\ item.deviceSerialNumber = <<"A">>
        /\ Len(item.stepsSummary.items) = 2
        /\ Len(item.testDetails.members) = 3

-----------------------------------------------------------------------------
(* Properties of the presence tracker.                                     *)

\* C13: every api_viewers response has as many ips as its count says, up to
\* MaxIps: count and ips describe the same set of entries, the one the call's
\* own upsert and purge left, for every interleaving of heartbeats.
C13_CountMatchesIps ==
  (call.op = "api_viewers" /\ resp.status = 200) =>
    /\ Len(resp.ips) = (IF resp.count < MaxIps THEN resp.count ELSE MaxIps)
    /\ { resp.ips[n] : n \in DOMAIN resp.ips } \subseteq ViewerKeys(_viewers)

\* C14: an identifier the call found older than the timeout and evicted is not
\* among the returned ips and is not one of the entries the returned count
\* counts.
C14_EvictedIsGone ==
  (call.op = "api_viewers" /\ resp.status = 200) =>
    \A n \in DOMAIN call.to_del :
      /\ call.to_del[n] # call.ip
      /\ \A m \in DOMAIN resp.ips : resp.ips[m] # call.to_del[n]
      /\ call.to_del[n] \notin ViewerKeys(_viewers)

\* The entries <<identifier, timestamp>> of a viewer map.
Entries(v) == { v[n] : n \in DOMAIN v }

\* The calls that are inside the with _viewers_lock block.
InCriticalSection == { h \in BagToSet(heartbeats) : h.pc \in {"scan", "delete"} }

\* At most one call is inside the block, and the lock is held exactly then.
MutualExclusion ==
  /\ \A h \in InCriticalSection : InCriticalSection = {h} /\ CopiesIn(h, heartbeats) = 1
  /\ _viewers_lock <=> InCriticalSection # {}

\* C19: the upsert and the eviction scan of a call are one critical section:
\* at most one call is in it, between its upsert and its eviction the map
\* changes by nothing else, and no update is lost: an upsert puts the caller's
\* entry in the map, and an entry leaves the map only when the call holding the
\* lock found it older than the timeout (or its own identifier renews it).
C19_CriticalSection ==
  [][ /\ MutualExclusion'
      /\ \A h \in InCriticalSection :
           \/ _viewers' = _viewers
           \/ /\ h.pc = "delete"
              /\ _viewers' = Delete(_viewers, h.to_del)
              /\ heartbeats' # heartbeats
              /\ h \notin InCriticalSection'
      /\ \A h \in BagToSet(heartbeats) :
           (h.pc = "lock" /\ heartbeats' = Moved(h, [h EXCEPT !.pc = "scan"])) =>
             <<h.ip, h.now>> \in Entries(_viewers')
      /\ \A e \in Entries(_viewers) :
           \/ e \in Entries(_viewers')
           \/ \E h \in BagToSet(heartbeats) :
                h.pc = "lock" /\ h.ip = e[1] /\ <<h.ip, h.now>> \in Entries(_viewers')
           \/ \E h \in BagToSet(heartbeats) :
                /\ h.pc = "delete"
                /\ h.now - e[2] > VIEWER_TIMEOUT_SEC
                /\ e[1] \notin ViewerKeys(_viewers')
      /\ \A h \in BagToSet(heartbeats') : h.pc # "KeyError" ]_vars

\* A call holds the lock and is about to evict an identifier while a heartbeat
\* of another identifier waits for the lock.
C19_Witness ==
  \E h \in BagToSet(heartbeats), g \in BagToSet(heartbeats) :
    /\ h.pc = "delete" /\ h.to_del # <<>>
    /\ g.pc = "lock" /\ g.ip # h.ip
    /\ _viewers_lock

\* C20: expiry is lazy.  The viewer map changes only in an api_viewers call:
\* no other operation and no passage of time changes it.  An api_viewers call
\* removes the entries of the other identifiers that are older than the timeout
\* at its clock reading (they are not listed and not counted) and keeps the
\* others as they are; the caller's own entry is renewed.
C20_ExpiryIsLazy ==
  [][ /\ _viewers' # _viewers => (call = NoCall /\ call'.op = "api_viewers")
      /\ (call = NoCall /\ call'.op = "api_viewers") =>
           /\ <<call'.ip, call'.now>> \in Entries(_viewers')
           /\ resp'.count = Cardinality(ViewerKeys(_viewers'))
           /\ \A e \in Entries(_viewers) :
                e[1] # call'.ip =>
                  IF call'.now - e[2] > VIEWER_TIMEOUT_SEC
                  THEN /\ e[1] \notin ViewerKeys(_viewers')
                       /\ \A n \in DOMAIN resp'.ips : resp'.ips[n] # e[1]
                  ELSE e \in Entries(_viewers') ]_vars

\* Of two identifiers in the map one is past the timeout and one is not, time
\* has passed and a summary was served: the expired entry is still there.
C20_Witness ==
  /\ call.op = "get_summary"
  /\ \E e \in Entries(_viewers) : clock - e[2] > VIEWER_TIMEOUT_SEC
  /\ \E e \in Entries(_viewers) : clock - e[2] = VIEWER_TIMEOUT_SEC

-----------------------------------------------------------------------------
(* Properties of decoding on read.                                         *)

\* The stored text is there and is not JSON.
Unparseable(text) == Truthy(text) /\ json_loads(text) = JSONDecodeError

\* C15: get_records succeeds whatever the stored steps_summary, step_results
\* and test_details are, and returns each record whose blob is not parseable
\* with that field empty (no steps) or absent (None).
C15_DecodeIsDefensive ==
  call.op = "get_records" =>
    /\ resp.status = 200
    /\ \A n \in DOMAIN resp.items :
         \A i \in DOMAIN records :
           records[i].id = resp.items[n].id =>
             /\ Unparseable(records[i].steps_summary) => resp.items[n].stepsSummary = JList(<<>>)
             /\ Unparseable(records[i].step_results) => resp.items[n].stepResults = null
             /\ Unparseable(records[i].test_details) => resp.items[n].testDetails = null

-----------------------------------------------------------------------------
(* Properties of get_sn_list.                                              *)

\* The non-empty serial numbers of a table.
SerialsOf(rows) ==
  { rows[i].device_serial_number : i \in DOMAIN rows } \ { <<>> }

\* C18: get_sn_list returns the non-empty serial numbers of the stored
\* records, each once, in ascending order, whatever was asked before; and the
\* serial numbers it lists for a table are listed for every later table.
C18_SnListIsSortedSetOfSerials ==
  [][ /\ call'.op = "get_sn_list" =>
           /\ resp'.status = 200
           /\ { resp'.list[n] : n \in DOMAIN resp'.list } = SerialsOf(records')
           /\ \A n, m \in DOMAIN resp'.list : n < m => TextLess(resp'.list[n], resp'.list[m])
      /\ \A n \in DOMAIN get_sn_list(records).list :
           \E m \in DOMAIN get_sn_list(records').list :
             get_sn_list(records').list[m] = get_sn_list(records).list[n] ]_vars

\* Device B, then device A, then a record with a blank serial number were
\* stored, and the list is A, B.
C18_Witness ==
  /\ call.op = "get_sn_list"
  /\ Len(records) = 3
  /\ records[1].device_serial_number = <<"B">>
  /\ records[2].device_serial_number = <<"A">>
  /\ records[3].device_serial_number = <<>>
  /\ resp.list = << <<"A">>, <<"B">> >>

-----------------------------------------------------------------------------
(* Properties of a refused insert.                                         *)

\* The columns of production_tests.
Columns ==
  { "id", "created_at", "start_time", "end_time", "duration_seconds",
    "device_serial_number", "device_name", "device_firmware_version",
    "device_bootloader_version", "device_hardware_revision", "overall_passed",
    "need_retest", "steps_summary", "step_results", "test_details" }

\* C21: ingestion is all or nothing.  The insert of a call whose id is stored
\* already answers 400 and leaves the table exactly as it was; every other
\* insert appends the one whole row of its call; so a read never sees a row
\* that is not the whole row of an accepted call.
C21_InsertIsAllOrNothing ==
  [][ \A q \in BagToSet(pending) :
        (call = NoCall /\ call'.op = "post_production_test"
           /\ pending' = pending (-) SetToBag({q})) =>
          IF \E i \in DOMAIN records : records[i].id = q.test_id
          THEN resp'.status = 400 /\ records' = records
          ELSE /\ resp'.status = 200
               /\ Len(records') = Len(records) + 1
               /\ SubSeq(records', 1, Len(records)) = records
               /\ DOMAIN records'[Len(records')] = Columns
               /\ records'[Len(records')].id = q.test_id
               /\ records'[Len(records')].created_at = q.created_at
               /\ get_records(records', 1, 0, NoFilters).status = 200 ]_vars

\* A call was refused with 400 for an id that a stored record has, while
\* another call is in progress.
C21_Witness ==
  /\ call.op = "post_production_test" /\ resp.status = 400
  /\ Len(records) >= 1
  /\ pending # EmptyBag

-----------------------------------------------------------------------------
(* Properties of the counts of a summary.                                  *)

\* C22: in every get_summary response 0 <= passed <= total and
\* failed = total - passed >= 0, and the same holds of the today block, also
\* when a post_production_test call commits between the COUNT queries.
C22_CountsAreConsistent ==
  call.op = "get_summary" =>
    /\ 0 <= resp.passed /\ resp.passed <= resp.total
    /\ resp.failed = resp.total - resp.passed /\ resp.failed >= 0
    /\ 0 <= resp.today.passed /\ resp.today.passed <= resp.today.total
    /\ resp.today.failed >= 0

-----------------------------------------------------------------------------
(* Properties of the timestamps of the viewer map.                         *)

\* C23: the timestamp the viewer map holds for an identifier never decreases
\* while the entry stays in the map, however the api_viewers calls of that
\* identifier overlap: no step replaces a timestamp by an older one.
C23_TimestampNeverDecreases ==
  [][ \A e \in Entries(_viewers), f \in Entries(_viewers') :
        e[1] = f[1] => f[2] >= e[2] ]_vars

====
